---- MODULE Spec2Model ----
(***************************************************************************)
(* FusionPlusEscrow (blockend/stellar/contracts/fusion_plus_escrow): the   *)
(* HTLC escrow instance of the cross-chain swap, one instance per leg.     *)
(* Every leg lives on its own ledger: its own clock, its own persisted     *)
(* storage, its own token and native-XLM balances and its own event log.   *)
(* An invocation is one ledger transaction: it commits as a whole or, on   *)
(* an error result or a host trap, leaves the ledger as it was.            *)
(***************************************************************************)
EXTENDS Integers, Sequences, FiniteSets, TLC

(***************************************************************************)
(* Bounds of the model.                                                    *)
(***************************************************************************)
\* secrets are 1..MaxSecret; 0 stands for "no secret"
MaxSecret == 2
\* amounts initialize accepts are 1..MaxAmount
MaxAmount == 1
\* safety deposits initialize accepts are 1..MaxDeposit
MaxDeposit == 1
\* tokens the maker owns when the ledger starts
MakerTokens == 2
\* native XLM the resolver owns when the ledger starts
ResolverNative == 1

(***************************************************************************)
(* Program constants.                                                      *)
(***************************************************************************)
\* public_withdraw: "+ 3600; // 1 hour grace period"
PublicWithdrawGrace == 3600

Legs == {"src", "dst"}
Addresses == {"alice", "bob", "carol"}
Escrow == "escrow"
Accounts == Addresses \cup {Escrow}
Secrets == 1..MaxSecret
NoSecret == 0
\* the caller recorded for an invocation that names and authenticates nobody
Anyone == "anyone"

\* The timelock configurations a swap is created with (the eight delays of
\* the factory's FactoryTimelockParams and of the escrow tests' TimelockParams).
ExampleDelays ==
    [finality |-> 10, src_withdrawal |-> 20, src_public_withdrawal |-> 30,
     src_cancellation |-> 40, src_public_cancellation |-> 50,
     dst_withdrawal |-> 60, dst_public_withdrawal |-> 70, dst_cancellation |-> 80]
LongDelays ==
    [finality |-> 10, src_withdrawal |-> 20, src_public_withdrawal |-> 3650,
     src_cancellation |-> 3700, src_public_cancellation |-> 3800,
     dst_withdrawal |-> 3900, dst_public_withdrawal |-> 4000, dst_cancellation |-> 4100]
WithdrawalNotAfterFinality ==
    [ExampleDelays EXCEPT !.finality = 20]
CancellationNotAfterWithdrawal ==
    [ExampleDelays EXCEPT !.src_withdrawal = 40]
\* public withdrawal configured to open only when cancellation does
PublicWithdrawalNotBeforeCancellation ==
    [ExampleDelays EXCEPT !.src_public_withdrawal = 40]

\* Ledger timestamps the clock of a leg can show: the start, and the window
\* boundaries of the two accepted configurations for a deployment at the start.
Times ==
    {1000, 1015, 1020, 1025, 1038, 1040, 1041, 1045, 1050,
     4619, 4620, 4650, 4700}
StartTime == CHOOSE t \in Times : \A u \in Times : t <= u

(***************************************************************************)
(* keccak256 on the 32-byte secret.  An injective map on the modelled      *)
(* secrets whose values are not secrets themselves.                        *)
(***************************************************************************)
keccak256(data) == 100 + ((7 * data + 3) % 16)

\* The swaps of the model are locked with the hash of the last secret; the
\* other secrets are wrong preimages.
SwapSecret == MaxSecret
HashLocks == {keccak256(SwapSecret)}

\* What initialize is offered: the accepted parameters, and one set of
\* parameters for each way of being rejected.
AcceptedInits ==
    [hash_lock : HashLocks, amount : 1..MaxAmount, safety_deposit : 1..MaxDeposit,
     tl : {ExampleDelays, LongDelays}]
SomeAcceptedInit ==
    [hash_lock |-> keccak256(SwapSecret), amount |-> MaxAmount,
     safety_deposit |-> MaxDeposit, tl |-> ExampleDelays]
RejectedInits ==
    {[SomeAcceptedInit EXCEPT !.amount = 0],
     [SomeAcceptedInit EXCEPT !.amount = -1],
     [SomeAcceptedInit EXCEPT !.safety_deposit = 0],
     [SomeAcceptedInit EXCEPT !.tl = WithdrawalNotAfterFinality],
     [SomeAcceptedInit EXCEPT !.tl = CancellationNotAfterWithdrawal]}
\* Parameters whose configuration breaks the ordering in a delay that
\* InitParams.timelocks does not carry.
MisorderedPublicInits ==
    {[SomeAcceptedInit EXCEPT !.tl = PublicWithdrawalNotBeforeCancellation]}
InitChoices == AcceptedInits \cup RejectedInits \cup MisorderedPublicInits

(***************************************************************************)
(* Instance storage: a map from the DataKey variants that are present.     *)
(***************************************************************************)
EmptyStorage == [k \in {} |-> FALSE]
StorageHas(s, k) == k \in DOMAIN s
StorageSet(s, k, v) == [x \in (DOMAIN s) \cup {k} |-> IF x = k THEN v ELSE s[x]]

VARIABLES
    now,          \* now[l]: ledger timestamp of leg l
    storage,      \* storage[l]: instance storage of the escrow of leg l
    tokenBal,     \* tokenBal[l][a]: balance of account a in the swap token
    nativeBal,    \* nativeBal[l][a]: balance of account a in native XLM
    events,       \* events[l]: the event log of leg l
    timelockCfg,  \* timelockCfg[l]: the configuration leg l was created with
    factory,      \* the escrow factory on the ledger of leg "src"
    lop,          \* the limit order protocol and the assets of its orders
    resolverStore, \* the resolver contract: its instance storage
    last          \* the most recent invocation and its result

vars == <<now, storage, tokenBal, nativeBal, events, timelockCfg, factory, lop, resolverStore, last>>

\* The ledger of one leg, as one invocation sees and changes it.
World(l) ==
    [storage |-> storage[l], token |-> tokenBal[l], native |-> nativeBal[l],
     events |-> events[l]]

Failed(w, e) == [result |-> e, w |-> w]
Succeeded(w) == [result |-> "Ok", w |-> w]

(***************************************************************************)
(* The token contract's transfer: traps when the sender's balance is short.*)
(***************************************************************************)
TransferOk(bal, from, amount) == amount >= 0 /\ bal[from] >= amount
Transfer(bal, from, to, amount) ==
    [[bal EXCEPT ![from] = @ - amount] EXCEPT ![to] = @ + amount]

(***************************************************************************)
(* Private helpers of the contract.                                        *)
(***************************************************************************)
\* (a variant that never sees the flag)
is_withdrawn_internal_blind(s) == FALSE
\* (a variant that never sees the flag)
is_cancelled_internal_blind(s) == FALSE

is_withdrawn_internal(s) ==
    IF StorageHas(s, "Withdrawn") THEN s["Withdrawn"] ELSE FALSE
is_cancelled_internal(s) ==
    IF StorageHas(s, "Cancelled") THEN s["Cancelled"] ELSE FALSE
is_native_token(token) == FALSE

\* (a variant for a token that lets any transfer through)
transfer_tokens_ok_unchecked(w, immutables) == TRUE
\* transfer_tokens: amount of the swap token from the contract to `to`.
transfer_tokens_ok(w, immutables) == TransferOk(w.token, Escrow, immutables.amount)
transfer_tokens(w, immutables, to) ==
    [w EXCEPT !.token = Transfer(w.token, Escrow, to, immutables.amount)]

\* transfer_native: a placeholder that moves nothing and returns Ok(()).
transfer_native(w, to, amount) == w

\* The checks of the secret and of the time windows, one per `if` of the code.
\* (a variant that accepts every secret)
invalid_secret_unchecked(secret, immutables) == FALSE
invalid_secret(secret, immutables) == keccak256(secret) # immutables.hash_lock
withdraw_too_early(immutables, t) ==
    t < immutables.timelocks.deployed_at + immutables.timelocks.src_withdrawal
\* (a variant that still accepts the cancellation time itself)
withdraw_too_late_inclusive(immutables, t) ==
    t > immutables.timelocks.deployed_at + immutables.timelocks.src_cancellation
withdraw_too_late(immutables, t) ==
    t >= immutables.timelocks.deployed_at + immutables.timelocks.src_cancellation
public_withdraw_too_early(immutables, t) ==
    t < immutables.timelocks.deployed_at + immutables.timelocks.src_withdrawal
          + PublicWithdrawGrace
public_withdraw_too_late(immutables, t) ==
    t >= immutables.timelocks.deployed_at + immutables.timelocks.src_cancellation
\* (a variant that forgets to add the delay)
cancel_too_early_no_delay(immutables, t) ==
    t < immutables.timelocks.deployed_at
cancel_too_early(immutables, t) ==
    t < immutables.timelocks.deployed_at + immutables.timelocks.src_cancellation
\* (a variant that lets only the taker cancel)
cancel_unauthorized_unless_taker(caller, immutables) ==
    caller # immutables.taker
cancel_unauthorized(caller, immutables) ==
    caller # immutables.maker /\ caller # immutables.taker

\* The five delays InitParams.timelocks (TimelockParams) can carry.
TimelockParams(tl) ==
    [finality |-> tl.finality, src_withdrawal |-> tl.src_withdrawal,
     src_cancellation |-> tl.src_cancellation,
     dst_withdrawal |-> tl.dst_withdrawal, dst_cancellation |-> tl.dst_cancellation]

(***************************************************************************)
(* initialize(env, params)                                                 *)
(***************************************************************************)
\* (a variant that lets an initialized instance be initialized again)
already_initialized_unguarded(s) == FALSE
already_initialized(s) == StorageHas(s, "Immutables")
\* (a variant that rejects negative values only)
invalid_amounts_negative_only(params) ==
    params.amount < 0 \/ params.safety_deposit < 0
invalid_amounts(params) == params.amount <= 0 \/ params.safety_deposit <= 0

initialize(w, t, params) ==
    IF already_initialized(w.storage) THEN Failed(w, "AlreadyInitialized")
    ELSE IF invalid_amounts(params) THEN Failed(w, "InvalidParams")
    ELSE IF params.timelocks.src_withdrawal <= params.timelocks.finality
    THEN Failed(w, "InvalidParams")
    ELSE IF params.timelocks.src_cancellation <= params.timelocks.src_withdrawal
    THEN Failed(w, "InvalidParams")
    ELSE
      LET deployed_at == t
          timelocks ==
            [finality |-> params.timelocks.finality,
             src_withdrawal |-> params.timelocks.src_withdrawal,
             src_cancellation |-> params.timelocks.src_cancellation,
             dst_withdrawal |-> params.timelocks.dst_withdrawal,
             dst_cancellation |-> params.timelocks.dst_cancellation,
             deployed_at |-> deployed_at]
          immutables ==
            [order_hash |-> params.order_hash, hash_lock |-> params.hash_lock,
             maker |-> params.maker, taker |-> params.taker, token |-> params.token,
             amount |-> params.amount, safety_deposit |-> params.safety_deposit,
             timelocks |-> timelocks]
          s1 == StorageSet(w.storage, "Immutables", immutables)
          s2 == StorageSet(s1, "Withdrawn", FALSE)
          s3 == StorageSet(s2, "Cancelled", FALSE)
          created ==
            [topic |-> "EscrowCreated", order_hash |-> params.order_hash,
             hash_lock |-> params.hash_lock, maker |-> params.maker,
             taker |-> params.taker, token |-> params.token,
             amount |-> params.amount, safety_deposit |-> params.safety_deposit,
             finality_time |-> deployed_at + params.timelocks.finality,
             withdrawal_time |-> deployed_at + params.timelocks.src_withdrawal,
             cancellation_time |-> deployed_at + params.timelocks.src_cancellation]
      IN Succeeded([w EXCEPT !.storage = s3, !.events = Append(w.events, created)])

(***************************************************************************)
(* deposit(env): authorised by the maker.                                  *)
(***************************************************************************)
deposit(w, t, invoker) ==
    IF ~StorageHas(w.storage, "Immutables") THEN Failed(w, "NotInitialized")
    ELSE
      LET immutables == w.storage["Immutables"] IN
      IF invoker # immutables.maker THEN Failed(w, "AuthError")
      ELSE IF is_withdrawn_internal(w.storage) \/ is_cancelled_internal(w.storage)
      THEN Failed(w, "InvalidTime")
      ELSE IF is_native_token(immutables.token) THEN Succeeded(w)
      ELSE IF ~TransferOk(w.token, immutables.maker, immutables.amount)
      THEN Failed(w, "HostTrap")
      ELSE Succeeded([w EXCEPT !.token =
             Transfer(w.token, immutables.maker, Escrow, immutables.amount)])

(***************************************************************************)
(* withdraw(env, secret): authorised by the taker.                         *)
(***************************************************************************)
withdraw(w, t, invoker, secret) ==
    IF ~StorageHas(w.storage, "Immutables") THEN Failed(w, "NotInitialized")
    ELSE
      LET immutables == w.storage["Immutables"]
          s1 == StorageSet(w.storage, "Withdrawn", TRUE)
          s2 == StorageSet(s1, "RevealedSecret", secret)
          w1 == [w EXCEPT !.storage = s2]
          w2 == transfer_tokens(w1, immutables, immutables.maker)
          w3 == transfer_native(w2, immutables.taker, immutables.safety_deposit)
          withdrawal ==
            [topic |-> "Withdrawal", hash_lock |-> immutables.hash_lock,
             secret |-> secret, withdrawn_by |-> immutables.taker,
             is_public_withdrawal |-> FALSE]
      IN
      IF invoker # immutables.taker THEN Failed(w, "AuthError")
      ELSE IF is_withdrawn_internal(w.storage) THEN Failed(w, "AlreadyWithdrawn")
      ELSE IF is_cancelled_internal(w.storage) THEN Failed(w, "AlreadyCancelled")
      ELSE IF invalid_secret(secret, immutables) THEN Failed(w, "InvalidSecret")
      ELSE IF withdraw_too_early(immutables, t) THEN Failed(w, "InvalidTime")
      ELSE IF withdraw_too_late(immutables, t) THEN Failed(w, "InvalidTime")
      ELSE IF ~transfer_tokens_ok(w1, immutables) THEN Failed(w, "HostTrap")
      ELSE Succeeded([w3 EXCEPT !.events = Append(w3.events, withdrawal)])

(***************************************************************************)
(* public_withdraw(env, secret, caller): authorised by `caller`.           *)
(***************************************************************************)
public_withdraw(w, t, invoker, secret, caller) ==
    IF ~StorageHas(w.storage, "Immutables") THEN Failed(w, "NotInitialized")
    ELSE
      LET immutables == w.storage["Immutables"]
          s1 == StorageSet(w.storage, "Withdrawn", TRUE)
          s2 == StorageSet(s1, "RevealedSecret", secret)
          w1 == [w EXCEPT !.storage = s2]
          w2 == transfer_tokens(w1, immutables, immutables.maker)
          w3 == transfer_native(w2, caller, immutables.safety_deposit)
          withdrawal ==
            [topic |-> "Withdrawal", hash_lock |-> immutables.hash_lock,
             secret |-> secret, withdrawn_by |-> caller,
             is_public_withdrawal |-> TRUE]
      IN
      IF invoker # caller THEN Failed(w, "AuthError")
      ELSE IF is_withdrawn_internal(w.storage) THEN Failed(w, "AlreadyWithdrawn")
      ELSE IF is_cancelled_internal(w.storage) THEN Failed(w, "AlreadyCancelled")
      ELSE IF invalid_secret(secret, immutables) THEN Failed(w, "InvalidSecret")
      ELSE IF public_withdraw_too_early(immutables, t) THEN Failed(w, "InvalidTime")
      ELSE IF public_withdraw_too_late(immutables, t) THEN Failed(w, "InvalidTime")
      ELSE IF ~transfer_tokens_ok(w1, immutables) THEN Failed(w, "HostTrap")
      ELSE Succeeded([w3 EXCEPT !.events = Append(w3.events, withdrawal)])

(***************************************************************************)
(* cancel(env, caller): authorised by `caller`.                            *)
(***************************************************************************)
\* (a variant that refunds without recording the cancellation)
cancel_effect_without_flag(w, immutables, caller) ==
    LET w2 == transfer_tokens(w, immutables, immutables.maker)
        cancelled ==
          [topic |-> "EscrowCancelled", hash_lock |-> immutables.hash_lock,
           cancelled_by |-> caller, refund_to |-> immutables.maker]
    IN IF ~transfer_tokens_ok(w, immutables) THEN Failed(w, "HostTrap")
       ELSE Succeeded([w2 EXCEPT !.events = Append(w2.events, cancelled)])
\* what a cancellation does once it is allowed
cancel_effect(w, immutables, caller) ==
    LET s1 == StorageSet(w.storage, "Cancelled", TRUE)
        w1 == [w EXCEPT !.storage = s1]
        w2 == transfer_tokens(w1, immutables, immutables.maker)
        w3 == transfer_native(w2, immutables.maker, immutables.safety_deposit)
        cancelled ==
          [topic |-> "EscrowCancelled", hash_lock |-> immutables.hash_lock,
           cancelled_by |-> caller, refund_to |-> immutables.maker]
    IN IF ~transfer_tokens_ok(w1, immutables) THEN Failed(w, "HostTrap")
       ELSE Succeeded([w3 EXCEPT !.events = Append(w3.events, cancelled)])

\* (a variant that does not look at the withdrawn flag)
cancel_skipping_withdrawn_check(w, t, invoker, caller) ==
    IF ~StorageHas(w.storage, "Immutables") THEN Failed(w, "NotInitialized")
    ELSE
      LET immutables == w.storage["Immutables"] IN
      IF invoker # caller THEN Failed(w, "AuthError")
      ELSE IF is_cancelled_internal(w.storage) THEN Failed(w, "AlreadyCancelled")
      ELSE IF cancel_too_early(immutables, t) THEN Failed(w, "InvalidTime")
      ELSE IF cancel_unauthorized(caller, immutables) THEN Failed(w, "Unauthorized")
      ELSE cancel_effect(w, immutables, caller)

cancel(w, t, invoker, caller) ==
    IF ~StorageHas(w.storage, "Immutables") THEN Failed(w, "NotInitialized")
    ELSE
      LET immutables == w.storage["Immutables"] IN
      IF invoker # caller THEN Failed(w, "AuthError")
      ELSE IF is_withdrawn_internal(w.storage) THEN Failed(w, "AlreadyWithdrawn")
      ELSE IF is_cancelled_internal(w.storage) THEN Failed(w, "AlreadyCancelled")
      ELSE IF cancel_too_early(immutables, t) THEN Failed(w, "InvalidTime")
      ELSE IF cancel_unauthorized(caller, immutables) THEN Failed(w, "Unauthorized")
      ELSE cancel_effect(w, immutables, caller)

(***************************************************************************)
(* public_cancel(env, caller): the escrow tests and the swap test call it; *)
(* lib.rs does not hold it.  Modelled from the specification: any          *)
(* authenticated caller, terminal states checked first, valid at or after  *)
(* deployed_at + public_cancellation, same effect as cancel.               *)
(***************************************************************************)
public_cancel(w, t, invoker, caller, cfg) ==
    IF ~StorageHas(w.storage, "Immutables") THEN Failed(w, "NotInitialized")
    ELSE
      LET immutables == w.storage["Immutables"]
          public_cancellation_time ==
            immutables.timelocks.deployed_at + cfg.src_public_cancellation
      IN
      IF invoker # caller THEN Failed(w, "AuthError")
      ELSE IF is_withdrawn_internal(w.storage) THEN Failed(w, "AlreadyWithdrawn")
      ELSE IF is_cancelled_internal(w.storage) THEN Failed(w, "AlreadyCancelled")
      ELSE IF t < public_cancellation_time THEN Failed(w, "InvalidTime")
      ELSE cancel_effect(w, immutables, caller)

(***************************************************************************)
(* get_revealed_secret(env): a read; the value is the stored secret.       *)
(***************************************************************************)
\* (a variant that hands out whatever the storage holds, NoSecret if nothing)
get_revealed_secret_unchecked(s) ==
    [result |-> "Ok",
     value |-> IF StorageHas(s, "RevealedSecret") THEN s["RevealedSecret"]
               ELSE NoSecret]
get_revealed_secret(s) ==
    IF ~is_withdrawn_internal(s) THEN [result |-> "InvalidTime", value |-> NoSecret]
    ELSE IF StorageHas(s, "RevealedSecret")
    THEN [result |-> "Ok", value |-> s["RevealedSecret"]]
    ELSE [result |-> "InvalidTime", value |-> NoSecret]

(***************************************************************************)
(* StellarResolver.send_safety_deposit: the resolver moves the safety      *)
(* deposit, in native XLM, from its own account to the escrow's address.   *)
(***************************************************************************)
send_safety_deposit(w, resolver, immutables) ==
    IF ~TransferOk(w.native, resolver, immutables.safety_deposit)
    THEN Failed(w, "HostTrap")
    ELSE Succeeded([w EXCEPT !.native =
           Transfer(w.native, resolver, Escrow, immutables.safety_deposit)])

(***************************************************************************)
(* StellarEscrowFactory (blockend/stellar/contracts/stellar_escrow_factory)*)
(* on the ledger of leg "src": its instance storage (configuration), its   *)
(* persistent storage (the registry EscrowMapping(hash_lock)), the         *)
(* contracts its deployer has created, and the events it has published.    *)
(***************************************************************************)
Factory == "factory"
LimitOrderProtocol == "lop"
WasmHashes == {"wasm1", "wasm2"}
\* parse_extra_data: "hashlock_info: BytesN::from_array(env, &[0u8; 32])"
PlaceholderHashLock == 0
\* the hash_locks create is called with
FactoryHashLocks == {keccak256(SwapSecret), PlaceholderHashLock}

FactoryInitial ==
    [instance |-> EmptyStorage, persistent |-> EmptyStorage, deployed |-> {},
     events |-> <<>>]

\* A result that carries a return value.
Returned(w, v) == [result |-> "Ok", w |-> w, value |-> v]
NoValue == "none"

\* Delay configurations that break one of the orderings create checks.
PublicWithdrawalNotAfterWithdrawal ==
    [ExampleDelays EXCEPT !.src_public_withdrawal = 20]
PublicCancellationNotAfterCancellation ==
    [ExampleDelays EXCEPT !.src_public_cancellation = 40]
DstWithdrawalNotAfterFinality ==
    [ExampleDelays EXCEPT !.dst_withdrawal = 10]
DstPublicWithdrawalNotAfterWithdrawal ==
    [ExampleDelays EXCEPT !.dst_public_withdrawal = 60]
DstCancellationNotAfterPublicWithdrawal ==
    [ExampleDelays EXCEPT !.dst_cancellation = 70]
MisorderedDelays ==
    {WithdrawalNotAfterFinality, CancellationNotAfterWithdrawal,
     PublicWithdrawalNotBeforeCancellation, PublicWithdrawalNotAfterWithdrawal,
     PublicCancellationNotAfterCancellation, DstWithdrawalNotAfterFinality,
     DstPublicWithdrawalNotAfterWithdrawal, DstCancellationNotAfterPublicWithdrawal}

\* What create is offered besides the hash_lock: parameters it accepts, and
\* parameters for each way of being rejected as invalid.
AcceptedCreates ==
    [amount : {MaxAmount}, safety_deposit : {MaxDeposit},
     tl : {ExampleDelays, LongDelays}]
SomeAcceptedCreate ==
    [amount |-> MaxAmount, safety_deposit |-> MaxDeposit, tl |-> ExampleDelays]
InvalidCreates ==
    {[SomeAcceptedCreate EXCEPT !.amount = 0],
     [SomeAcceptedCreate EXCEPT !.amount = -1],
     [SomeAcceptedCreate EXCEPT !.safety_deposit = 0]}
    \cup {[SomeAcceptedCreate EXCEPT !.tl = d] : d \in MisorderedDelays}
CreateChoices == AcceptedCreates \cup InvalidCreates

\* The arguments of a create call of the modelled swaps.
CreateArgs(hash_lock, p) ==
    [order_hash |-> "order", hash_lock |-> hash_lock, maker |-> "alice",
     taker |-> "bob", token |-> "token", amount |-> p.amount,
     safety_deposit |-> p.safety_deposit, timelocks |-> p.tl]

\* (a variant without the guard)
factory_already_initialized_unguarded(w) == FALSE
\* initialize: "if env.storage().instance().has(&DataKey::Initialized)"
factory_already_initialized(w) == StorageHas(w.instance, "Initialized")

\* StellarEscrowFactory::initialize
factory_initialize(w, escrow_wasm_hash, admin, limit_order_protocol) ==
    IF factory_already_initialized(w) THEN Failed(w, "AlreadyInitialized")
    ELSE Succeeded([w EXCEPT !.instance =
           StorageSet(StorageSet(StorageSet(StorageSet(@,
              "EscrowWasmHash", escrow_wasm_hash),
              "Admin", admin),
              "LimitOrderProtocol", limit_order_protocol),
              "Initialized", TRUE)])

\* (a variant that finds no mapping)
escrow_exists_blind(w, hash_lock) == FALSE
\* escrow_exists, and the same test at the head of both creates
escrow_exists(w, hash_lock) == StorageHas(w.persistent, hash_lock)

\* (a variant that never finds the mapping)
get_escrow_address_lost(w, hash_lock) == Failed(w, "EscrowNotFound")
get_escrow_address(w, hash_lock) ==
    IF StorageHas(w.persistent, hash_lock)
    THEN Returned(w, w.persistent[hash_lock])
    ELSE Failed(w, "EscrowNotFound")

\* The address the deployer derives from the deploying contract and the salt.
EscrowAddress(deployer, salt) == <<deployer, salt>>

\* deploy_escrow_instance: the host traps when the wasm hash is missing and
\* when a contract already lives at the derived address.
deploy_escrow_instance(w, hash_lock) ==
    IF ~StorageHas(w.instance, "EscrowWasmHash") THEN Failed(w, "HostTrap")
    ELSE IF EscrowAddress(Factory, hash_lock) \in w.deployed THEN Failed(w, "HostTrap")
    ELSE Returned([w EXCEPT !.deployed = @ \cup {EscrowAddress(Factory, hash_lock)}],
                  EscrowAddress(Factory, hash_lock))

\* create: "if amount <= 0 || safety_deposit <= 0"
invalid_create_amounts(amount, safety_deposit) == amount <= 0 \/ safety_deposit <= 0

\* (a variant that validates the source-side delays only)
invalid_create_timelocks_src_only(timelocks) ==
    \/ timelocks.src_withdrawal <= timelocks.finality
    \/ timelocks.src_public_withdrawal <= timelocks.src_withdrawal
    \/ timelocks.src_cancellation <= timelocks.src_public_withdrawal
    \/ timelocks.src_public_cancellation <= timelocks.src_cancellation
\* create: "Validate 7-stage timelock ordering"
invalid_create_timelocks(timelocks) ==
    \/ timelocks.src_withdrawal <= timelocks.finality
    \/ timelocks.src_public_withdrawal <= timelocks.src_withdrawal
    \/ timelocks.src_cancellation <= timelocks.src_public_withdrawal
    \/ timelocks.src_public_cancellation <= timelocks.src_cancellation
    \/ timelocks.dst_withdrawal <= timelocks.finality
    \/ timelocks.dst_public_withdrawal <= timelocks.dst_withdrawal
    \/ timelocks.dst_cancellation <= timelocks.dst_public_withdrawal

\* TimelockInfo of a creation event
TimelockInfo(timelocks, t) ==
    [finality |-> timelocks.finality, src_withdrawal |-> timelocks.src_withdrawal,
     src_public_withdrawal |-> timelocks.src_public_withdrawal,
     src_cancellation |-> timelocks.src_cancellation,
     src_public_cancellation |-> timelocks.src_public_cancellation,
     dst_withdrawal |-> timelocks.dst_withdrawal,
     dst_public_withdrawal |-> timelocks.dst_public_withdrawal,
     dst_cancellation |-> timelocks.dst_cancellation, deployed_at |-> t]

\* SrcEscrowCreatedEvent / DstEscrowCreatedEvent
EscrowCreatedEvent(type, a, escrow_address, t) ==
    [type |-> type, order_hash |-> a.order_hash, hash_lock |-> a.hash_lock,
     escrow_address |-> escrow_address, maker |-> a.maker, taker |-> a.taker,
     token |-> a.token, amount |-> a.amount, safety_deposit |-> a.safety_deposit,
     timelocks |-> TimelockInfo(a.timelocks, t)]

\* The tail both creates share: deploy, register, publish, return the address.
\* Neither calls initialize on the instance it deployed.
deploy_and_register(w, t, type, a) ==
    LET d == deploy_escrow_instance(w, a.hash_lock)
    IN IF d.result # "Ok" THEN Failed(w, d.result)
       ELSE Returned([d.w EXCEPT
                !.persistent = StorageSet(@, a.hash_lock, d.value),
                !.events = Append(@, EscrowCreatedEvent(type, a, d.value, t))],
              d.value)

create_src_escrow(w, t, a) ==
    IF ~StorageHas(w.instance, "Initialized") THEN Failed(w, "NotInitialized")
    ELSE IF escrow_exists(w, a.hash_lock) THEN Failed(w, "EscrowExists")
    ELSE IF invalid_create_amounts(a.amount, a.safety_deposit)
    THEN Failed(w, "InvalidParams")
    ELSE IF invalid_create_timelocks(a.timelocks) THEN Failed(w, "InvalidParams")
    ELSE deploy_and_register(w, t, "SrcEscrowCreated", a)

create_dst_escrow(w, t, invoker, a, caller) ==
    IF ~StorageHas(w.instance, "Initialized") THEN Failed(w, "NotInitialized")
    ELSE IF invoker # caller THEN Failed(w, "AuthError")
    ELSE IF escrow_exists(w, a.hash_lock) THEN Failed(w, "EscrowExists")
    ELSE IF invalid_create_amounts(a.amount, a.safety_deposit)
    THEN Failed(w, "InvalidParams")
    ELSE IF invalid_create_timelocks(a.timelocks) THEN Failed(w, "InvalidParams")
    ELSE deploy_and_register(w, t, "DstEscrowCreated", a)

\* parse_extra_data: the placeholder every call gets
parse_extra_data ==
    [hashlock_info |-> PlaceholderHashLock,
     timelocks |-> [finality |-> 60, src_withdrawal |-> 120,
                    src_public_withdrawal |-> 180, src_cancellation |-> 240,
                    src_public_cancellation |-> 300, dst_withdrawal |-> 360,
                    dst_public_withdrawal |-> 420, dst_cancellation |-> 480]]

\* verify_maker_balance, given the maker's balance in the order's maker asset
verify_maker_balance(maker_balance, amount) == maker_balance >= amount

\* (a variant whose late failure keeps what was published and deployed)
post_interaction_keeping_partial_effects(w, t, invoker, order_hash, maker, taker, making_amount, maker_balance) ==
    IF ~StorageHas(w.instance, "LimitOrderProtocol") THEN Failed(w, "NotInitialized")
    ELSE IF invoker # w.instance["LimitOrderProtocol"] THEN Failed(w, "AuthError")
    ELSE LET x == parse_extra_data
             published == [w EXCEPT !.events = Append(@,
                 EscrowCreatedEvent("SrcEscrowCreated",
                     [order_hash |-> order_hash, hash_lock |-> x.hashlock_info,
                      maker |-> maker, taker |-> taker, token |-> "token",
                      amount |-> making_amount, safety_deposit |-> 0,
                      timelocks |-> x.timelocks],
                     Factory, t))]
             d == deploy_escrow_instance(published, x.hashlock_info)
         IN IF d.result # "Ok" THEN Failed(w, d.result)
            ELSE IF ~verify_maker_balance(maker_balance, making_amount)
            THEN Failed(d.w, "InsufficientEscrowBalance")
            ELSE Succeeded(d.w)
\* post_interaction: publishes, deploys, and only then looks at the maker's
\* balance; an error result rolls all of it back.
post_interaction(w, t, invoker, order_hash, maker, taker, making_amount, maker_balance) ==
    IF ~StorageHas(w.instance, "LimitOrderProtocol") THEN Failed(w, "NotInitialized")
    ELSE IF invoker # w.instance["LimitOrderProtocol"] THEN Failed(w, "AuthError")
    ELSE LET x == parse_extra_data
             published == [w EXCEPT !.events = Append(@,
                 EscrowCreatedEvent("SrcEscrowCreated",
                     [order_hash |-> order_hash, hash_lock |-> x.hashlock_info,
                      maker |-> maker, taker |-> taker, token |-> "token",
                      amount |-> making_amount, safety_deposit |-> 0,
                      timelocks |-> x.timelocks],
                     Factory, t))]
             d == deploy_escrow_instance(published, x.hashlock_info)
         IN IF d.result # "Ok" THEN Failed(w, d.result)
            ELSE IF ~verify_maker_balance(maker_balance, making_amount)
            THEN Failed(w, "InsufficientEscrowBalance")
            ELSE Succeeded(d.w)

(***************************************************************************)
(* StellarLimitOrderProtocol (blockend/stellar/contracts/                  *)
(* stellar_limit_order_protocol): its instance storage (the maps rem_inv   *)
(* and orders), its events, and the balances of the two assets of the      *)
(* modelled orders.  Amounts are u128 in the code; the model keeps the     *)
(* arithmetic and narrows the word to LopWordBits bits.                    *)
(***************************************************************************)
\* width of the unsigned word that stands for u128
LopWordBits == 4
\* events the protocol publishes before the model stops adding more
MaxLopEvents == 3
U128Modulus == 2 ^ LopWordBits
\* u128::MAX
U128Max == U128Modulus - 1
\* i128::MAX
I128Max == (U128Modulus \div 2) - 1

\* `x as i128`
as_i128(x) == IF x > I128Max THEN x - U128Modulus ELSE x

\* `a * b` on u128: with overflow checks compiled in the product traps when
\* it does not fit, without them it wraps around.
mul_u128(a, b, overflow_checks) ==
    IF a * b <= U128Max THEN [trap |-> FALSE, value |-> a * b]
    ELSE IF overflow_checks THEN [trap |-> TRUE, value |-> 0]
    ELSE [trap |-> FALSE, value |-> (a * b) % U128Modulus]

\* The orders of the model: alice sells the maker asset for the taker asset.
Order(making_amount, taking_amount) ==
    [salt |-> 1, maker_asset |-> "maker_asset", taker_asset |-> "taker_asset",
     maker |-> "alice", receiver |-> "alice", allowed_sender |-> "alice",
     making_amount |-> making_amount, taking_amount |-> taking_amount,
     offsets |-> 0, interactions |-> <<>>]
\* two units of the maker asset for each unit of the taker asset, as the
\* 1000-for-500 order of the tests
TwoForOne == Order(4, 2)
\* an order whose making amount is zero
NothingForTwo == Order(0, 2)
Orders == {TwoForOne, Order(3, 2), NothingForTwo}

\* hash_order: the hash covers every field of the order
hash_order(order) ==
    <<"Order", order.maker_asset, order.taker_asset, order.maker, order.receiver,
      order.allowed_sender, order.salt, order.making_amount, order.taking_amount,
      order.offsets, keccak256(Len(order.interactions))>>
OrderHashes == {hash_order(o) : o \in Orders}

\* Signatures: one the maker made over the order hash, 64 bytes that are
\* not such a signature, and bytes of another length.
Signatures == {"signed", "forged", "short"}

EmptyMap == [k \in {} |-> 0]
LopInitial ==
    [instance |-> EmptyStorage, events |-> <<>>,
     maker_asset |-> [a \in Addresses \cup {LimitOrderProtocol} |->
                        IF a = "alice" THEN U128Max ELSE 0],
     taker_asset |-> [a \in Addresses \cup {LimitOrderProtocol} |->
                        IF a = "bob" THEN U128Max ELSE 0]]

\* `env.storage().instance().get(&key).unwrap_or(Map::new(env))`
instance_map(w, key) == IF StorageHas(w.instance, key) THEN w.instance[key] ELSE EmptyMap

\* StellarLimitOrderProtocol::initialize: stores two empty maps, whatever
\* was stored before.
lop_initialize(w) ==
    Succeeded([w EXCEPT !.instance =
        StorageSet(StorageSet(@, "rem_inv", EmptyMap), "orders", EmptyMap)])

validate_order(order) == order.making_amount # 0 /\ order.taking_amount # 0

\* get_remaining_amount: "unwrap_or(u128::MAX)"
get_remaining_amount(w, order_hash) ==
    IF StorageHas(instance_map(w, "rem_inv"), order_hash)
    THEN instance_map(w, "rem_inv")[order_hash]
    ELSE U128Max

update_remaining_amount(w, order_hash, remaining) ==
    [w EXCEPT !.instance =
        StorageSet(@, "rem_inv", StorageSet(instance_map(w, "rem_inv"), order_hash, remaining))]

\* remaining_invalidator_for_order: "unwrap_or(0)"
remaining_invalidator_for_order(w, order_hash) ==
    IF StorageHas(instance_map(w, "rem_inv"), order_hash)
    THEN instance_map(w, "rem_inv")[order_hash]
    ELSE 0

\* transfer_assets: maker -> protocol, taker -> maker, protocol -> taker;
\* the token contract traps on a negative amount and on a short balance.
transfer_assets_ok(w, order, taker, making_amount, taking_amount) ==
    /\ TransferOk(w.maker_asset, order.maker, as_i128(making_amount))
    /\ TransferOk(w.taker_asset, taker, as_i128(taking_amount))
    /\ TransferOk(Transfer(w.maker_asset, order.maker, LimitOrderProtocol,
                           as_i128(making_amount)),
                  LimitOrderProtocol, as_i128(making_amount))
transfer_assets(w, order, taker, making_amount, taking_amount) ==
    [w EXCEPT
       !.maker_asset = Transfer(Transfer(@, order.maker, LimitOrderProtocol,
                                         as_i128(making_amount)),
                                LimitOrderProtocol, taker, as_i128(making_amount)),
       !.taker_asset = Transfer(@, taker, order.maker, as_i128(taking_amount))]

\* StellarLimitOrderProtocol::fill_order
fill_order(w, order, signature, taker, amount, overflow_checks) ==
    LET order_hash == hash_order(order)
        remaining == get_remaining_amount(w, order_hash)
        product == mul_u128(amount, order.making_amount, overflow_checks)
        making_amount == product.value \div order.taking_amount
        taking_amount == amount
        w1 == update_remaining_amount(w, order_hash, remaining - amount)
        w2 == transfer_assets(w1, order, taker, making_amount, taking_amount)
        w3 == [w2 EXCEPT !.instance =
                  StorageSet(@, "orders",
                             StorageSet(instance_map(w2, "orders"), order_hash, order))]
        filled == [topic |-> "OrderFilled", order_hash |-> order_hash,
                   remaining |-> remaining - amount]
    IN IF ~validate_order(order) THEN Failed(w, "SwapWithZeroAmount")
       ELSE IF signature = "short" THEN Failed(w, "BadSignature")
       ELSE IF signature # "signed" THEN Failed(w, "HostTrap")
       ELSE IF remaining < amount THEN Failed(w, "TakingAmountExceeded")
       ELSE IF product.trap THEN Failed(w, "HostTrap")
       ELSE IF ~transfer_assets_ok(w1, order, taker, making_amount, taking_amount)
       THEN Failed(w, "HostTrap")
       ELSE Returned([w3 EXCEPT !.events = Append(@, filled)],
                     [making_amount |-> making_amount, taking_amount |-> taking_amount,
                      order_hash |-> order_hash])

\* StellarLimitOrderProtocol::cancel_order
cancel_order(w, invoker, maker, order_hash) ==
    IF invoker # maker THEN Failed(w, "AuthError")
    ELSE Succeeded([update_remaining_amount(w, order_hash, 0) EXCEPT
            !.events = Append(@, [topic |-> "OrderCancelled", order_hash |-> order_hash])])

\* StellarLimitOrderProtocol::fill_args: the order is converted field by
\* field, the taker is the protocol's own address whatever the args are,
\* and non-empty args are published after the fill.
convert_resolver_order(resolver_order) ==
    [salt |-> resolver_order.salt, maker_asset |-> resolver_order.maker_asset,
     taker_asset |-> resolver_order.taker_asset, maker |-> resolver_order.maker,
     receiver |-> resolver_order.receiver, allowed_sender |-> resolver_order.maker,
     making_amount |-> resolver_order.making_amount,
     taking_amount |-> resolver_order.taking_amount,
     offsets |-> 0, interactions |-> <<>>]
extract_taker_from_args(args) == LimitOrderProtocol
process_cross_chain_args(w, args) ==
    IF Len(args) > 0
    THEN [w EXCEPT !.events = Append(@, [topic |-> "CrossChainArgs", args |-> args])]
    ELSE w
fill_args(w, resolver_order, signature, amount, args, overflow_checks) ==
    LET filled == fill_order(w, convert_resolver_order(resolver_order), signature,
                             extract_taker_from_args(args), amount, overflow_checks)
    IN IF filled.result # "Ok" THEN Failed(w, filled.result)
       ELSE Succeeded(process_cross_chain_args(filled.w, args))

(***************************************************************************)
(* StellarResolver (blockend/stellar/contracts/stellar_resolver): its      *)
(* instance storage holds the configuration under the key "config".  Its   *)
(* operations forward to the contracts the configuration names; the        *)
(* outcome carries the resolver's storage, the native balances and the     *)
(* limit order protocol as the invocation leaves them.                     *)
(***************************************************************************)
ResolverInitial == [instance |-> EmptyStorage]
ResolverConfig(factory_address, limit_order_protocol, admin) ==
    [factory |-> factory_address, limit_order_protocol |-> limit_order_protocol,
     admin |-> admin]
ResolverOut(result, w, native, lp) ==
    [result |-> result, w |-> w, native |-> native, lop |-> lp]

\* StellarResolver::initialize
resolver_initialize(w, native, lp, factory_address, limit_order_protocol, admin) ==
    ResolverOut("Ok",
                [w EXCEPT !.instance =
                    StorageSet(@, "config",
                               ResolverConfig(factory_address, limit_order_protocol, admin))],
                native, lp)

\* "let config: ResolverConfig = ...get(&Self::CONFIG).unwrap();
\*  config.admin.require_auth();": the outcome of the gate, "Ok" when it
\* lets the invoker through
admin_gate(w, invoker) ==
    IF ~StorageHas(w.instance, "config") THEN "HostTrap"
    ELSE IF invoker # w.instance["config"].admin THEN "AuthError"
    ELSE "Ok"

\* env.invoke_contract(target, function, args) for the functions and
\* arguments the resolver uses ("get_addr", "create_d", "withdraw" with
\* a secret and immutables, "cancel" with immutables): the factory and the
\* escrow of this repository export no function that accepts them, another
\* contract at the address answers as it likes.
invoke_answers(target, answers) == target \notin {Factory, Escrow} /\ answers

\* the "fill_args" invocation of deploy_src on the configured protocol
execute_order_on_lop(lp, limit_order_protocol, order, signature, amount, args, answers, overflow_checks) ==
    IF limit_order_protocol = LimitOrderProtocol
    THEN fill_args(lp, order, signature, amount, args, overflow_checks)
    ELSE IF answers THEN Succeeded(lp) ELSE Failed(lp, "HostTrap")

\* StellarResolver::deploy_src
deploy_src(w, native, lp, invoker, immutables, order, signature, amount, args, factory_answers, lop_answers, overflow_checks) ==
    LET config == w.instance["config"]
        sent == send_safety_deposit([native |-> native], "bob", immutables)
        executed == execute_order_on_lop(lp, config.limit_order_protocol, order,
                                         signature, amount, <<Escrow>> \o args,
                                         lop_answers, overflow_checks)
    IN IF admin_gate(w, invoker) # "Ok" THEN ResolverOut(admin_gate(w, invoker), w, native, lp)
       ELSE IF ~invoke_answers(config.factory, factory_answers)
       THEN ResolverOut("EscrowAddressComputationFailed", w, native, lp)
       ELSE IF sent.result # "Ok" THEN ResolverOut("HostTrap", w, native, lp)
       ELSE IF executed.result # "Ok" THEN ResolverOut("OrderExecutionFailed", w, native, lp)
       ELSE ResolverOut("Ok", w, sent.w.native, executed.w)

\* StellarResolver::deploy_dst
deploy_dst(w, native, lp, invoker, factory_answers) ==
    IF admin_gate(w, invoker) # "Ok" THEN ResolverOut(admin_gate(w, invoker), w, native, lp)
    ELSE IF ~invoke_answers(w.instance["config"].factory, factory_answers)
    THEN ResolverOut("EscrowCreationFailed", w, native, lp)
    ELSE ResolverOut("Ok", w, native, lp)

\* StellarResolver::withdraw
resolver_withdraw(w, native, lp, invoker, escrow, escrow_answers) ==
    IF admin_gate(w, invoker) # "Ok" THEN ResolverOut(admin_gate(w, invoker), w, native, lp)
    ELSE IF ~invoke_answers(escrow, escrow_answers)
    THEN ResolverOut("WithdrawFailed", w, native, lp)
    ELSE ResolverOut("Ok", w, native, lp)

\* StellarResolver::cancel
resolver_cancel(w, native, lp, invoker, escrow, escrow_answers) ==
    IF admin_gate(w, invoker) # "Ok" THEN ResolverOut(admin_gate(w, invoker), w, native, lp)
    ELSE IF ~invoke_answers(escrow, escrow_answers)
    THEN ResolverOut("CancelFailed", w, native, lp)
    ELSE ResolverOut("Ok", w, native, lp)

\* StellarResolver::arbitrary_calls: the calls are made in order; call data
\* shorter than the eight bytes of a function name is "short".
make_arbitrary_call(target, arguments, target_answers) ==
    IF arguments = "short" THEN "InvalidCallData"
    ELSE IF ~invoke_answers(target, target_answers) THEN "HostTrap"
    ELSE "Ok"
arbitrary_calls(w, native, lp, invoker, targets, arguments, target_answers) ==
    LET failing == {i \in 1..Len(targets) :
                      make_arbitrary_call(targets[i], arguments[i], target_answers) # "Ok"}
        first == CHOOSE i \in failing : \A j \in failing : i <= j
    IN IF admin_gate(w, invoker) # "Ok" THEN ResolverOut(admin_gate(w, invoker), w, native, lp)
       ELSE IF Len(targets) # Len(arguments) THEN ResolverOut("LengthMismatch", w, native, lp)
       ELSE IF failing # {}
       THEN ResolverOut(make_arbitrary_call(targets[first], arguments[first], target_answers),
                        w, native, lp)
       ELSE ResolverOut("Ok", w, native, lp)

Init ==
    /\ now = [l \in Legs |-> StartTime]
    /\ storage = [l \in Legs |-> EmptyStorage]
    /\ tokenBal = [l \in Legs |-> [a \in Accounts |-> IF a = "alice" THEN MakerTokens ELSE 0]]
    /\ nativeBal = [l \in Legs |-> [a \in Accounts |-> IF a = "bob" THEN ResolverNative ELSE 0]]
    /\ events = [l \in Legs |-> <<>>]
    /\ timelockCfg = [l \in Legs |-> ExampleDelays]
    /\ factory = FactoryInitial
    /\ lop = LopInitial
    /\ resolverStore = ResolverInitial
    /\ last = [leg |-> "src", op |-> "none", caller |-> Anyone, secret |-> NoSecret,
               result |-> "Ok"]

\* One invocation on leg l took effect as `out` says.  The host rejects an
\* invocation that lacks the authorisation it asks for before the contract
\* looks at its arguments: it is recorded without them.
Commit(l, op, caller, secret, out) ==
    /\ storage' = [storage EXCEPT ![l] = out.w.storage]
    /\ tokenBal' = [tokenBal EXCEPT ![l] = out.w.token]
    /\ nativeBal' = [nativeBal EXCEPT ![l] = out.w.native]
    /\ events' = [events EXCEPT ![l] = out.w.events]
    /\ last' = IF out.result = "AuthError"
               THEN [leg |-> l, op |-> op, caller |-> Anyone, secret |-> NoSecret,
                     result |-> out.result]
               ELSE [leg |-> l, op |-> op, caller |-> caller, secret |-> secret,
                     result |-> out.result]
    /\ UNCHANGED <<now, factory, lop, resolverStore>>

\* The InitParams of the modelled swaps: alice sells, bob resolves.
InitParams(p) ==
    [order_hash |-> "order", hash_lock |-> p.hash_lock, maker |-> "alice",
     taker |-> "bob", token |-> "token", amount |-> p.amount,
     safety_deposit |-> p.safety_deposit, timelocks |-> TimelockParams(p.tl)]

Initialize(l, p) ==
    LET out == initialize(World(l), now[l], InitParams(p))
    IN /\ Commit(l, "initialize", Anyone, NoSecret, out)
       /\ timelockCfg' = IF out.result = "Ok" THEN [timelockCfg EXCEPT ![l] = p.tl]
                         ELSE timelockCfg

Deposit(l, invoker) ==
    /\ Commit(l, "deposit", invoker, NoSecret, deposit(World(l), now[l], invoker))
    /\ UNCHANGED timelockCfg

Withdraw(l, invoker, secret) ==
    /\ Commit(l, "withdraw", invoker, secret, withdraw(World(l), now[l], invoker, secret))
    /\ UNCHANGED timelockCfg

\* An invocation that names `caller` carries the authorisation of `invoker`;
\* the two differ when somebody names an address that is not theirs.
PublicWithdraw(l, invoker, secret, caller) ==
    /\ Commit(l, "public_withdraw", caller, secret,
              public_withdraw(World(l), now[l], invoker, secret, caller))
    /\ UNCHANGED timelockCfg

Cancel(l, invoker, caller) ==
    /\ Commit(l, "cancel", caller, NoSecret, cancel(World(l), now[l], invoker, caller))
    /\ UNCHANGED timelockCfg

PublicCancel(l, invoker, caller) ==
    /\ Commit(l, "public_cancel", caller, NoSecret,
              public_cancel(World(l), now[l], invoker, caller, timelockCfg[l]))
    /\ UNCHANGED timelockCfg

\* The resolver (the taker of the modelled swaps) funds the safety deposit of
\* an escrow it knows the immutables of.
SendSafetyDeposit(l) ==
    /\ StorageHas(storage[l], "Immutables")
    /\ Commit(l, "send_safety_deposit", "bob", NoSecret,
              send_safety_deposit(World(l), "bob", storage[l]["Immutables"]))
    /\ UNCHANGED timelockCfg

\* Anybody reads the revealed secret; `last` records what came back.
GetRevealedSecret(l) ==
    /\ last' = [leg |-> l, op |-> "get_revealed_secret", caller |-> Anyone,
                secret |-> get_revealed_secret(storage[l]).value,
                result |-> get_revealed_secret(storage[l]).result]
    /\ UNCHANGED <<now, storage, tokenBal, nativeBal, events, timelockCfg, factory, lop, resolverStore>>

\* The ledger of leg l closes a later block.
Tick(l, t) ==
    /\ t > now[l]
    /\ now' = [now EXCEPT ![l] = t]
    /\ last' = [leg |-> l, op |-> "tick", caller |-> Anyone, secret |-> NoSecret,
                result |-> "Ok"]
    /\ UNCHANGED <<storage, tokenBal, nativeBal, events, timelockCfg, factory, lop, resolverStore>>

Next ==
    \E l \in {"src"} :
       \/ \E t \in Times : Tick(l, t)
       \/ \E p \in InitChoices : Initialize(l, p)
       \/ \E c \in Addresses : Deposit(l, c)
       \/ SendSafetyDeposit(l)
       \/ \E c \in Addresses, s \in Secrets : Withdraw(l, c, s)
       \/ \E i \in Addresses, c \in Addresses, s \in Secrets : PublicWithdraw(l, i, s, c)
       \/ \E i \in Addresses, c \in Addresses : Cancel(l, i, c)
       \/ \E i \in Addresses, c \in Addresses : PublicCancel(l, i, c)
       \/ GetRevealedSecret(l)

Spec == Init /\ [][Next]_vars

(***************************************************************************)
(* The two legs of one swap, each on its own ledger with its own clock,    *)
(* both locked with the same hash_lock.                                    *)
(***************************************************************************)
SwapInit ==
    [hash_lock |-> keccak256(SwapSecret), amount |-> MaxAmount,
     safety_deposit |-> MaxDeposit, tl |-> ExampleDelays]
SwapTimes == {1025, 1045}

SwapNext ==
    \E l \in Legs :
       \/ \E t \in SwapTimes : Tick(l, t)
       \/ Initialize(l, SwapInit)
       \/ Deposit(l, "alice")
       \/ \E s \in Secrets : Withdraw(l, "bob", s)
       \/ \E c \in {"alice", "bob"} : Cancel(l, c, c)

SwapSpec == Init /\ [][SwapNext]_vars

(***************************************************************************)
(* One leg under a clock that keeps advancing and a maker who keeps        *)
(* retrying cancel.  The clock shows the times of LiveTimes and, once the  *)
(* escrow exists, its cancellation time.                                   *)
(***************************************************************************)
LiveTimes == {1025, 1040, 1045}
LiveTick(l) ==
    \E t \in LiveTimes \cup
              (IF StorageHas(storage[l], "Immutables")
               THEN {storage[l]["Immutables"].timelocks.deployed_at
                     + storage[l]["Immutables"].timelocks.src_cancellation}
               ELSE {}) : Tick(l, t)
MakerCancel(l) == Cancel(l, "alice", "alice")

LiveNext ==
    \E l \in {"src"} :
       \/ LiveTick(l)
       \/ Initialize(l, SwapInit)
       \/ Deposit(l, "alice")
       \/ \E s \in Secrets : Withdraw(l, "bob", s)
       \/ MakerCancel(l)
       \/ \E c \in {"bob", "carol"} : Cancel(l, c, c)

LiveSpec ==
    /\ Init /\ [][LiveNext]_vars
    /\ WF_vars(LiveTick("src"))
    /\ WF_vars(MakerCancel("src"))

(***************************************************************************)
(* The factory on the ledger of leg "src".  The escrow of that leg is the  *)
(* instance the factory deploys for the swap's hash_lock: it can be        *)
(* invoked once it is deployed.                                            *)
(***************************************************************************)
FactoryCommit(op, caller, hash_lock, out) ==
    /\ factory' = out.w
    /\ last' = [leg |-> "src", op |-> op,
                caller |-> IF out.result = "AuthError" THEN Anyone ELSE caller,
                secret |-> NoSecret, result |-> out.result, hash_lock |-> hash_lock,
                value |-> IF "value" \in DOMAIN out THEN out.value ELSE NoValue]
    /\ UNCHANGED <<now, storage, tokenBal, nativeBal, events, timelockCfg, lop, resolverStore>>

FactoryInitialize(escrow_wasm_hash, admin, limit_order_protocol) ==
    FactoryCommit("factory_initialize", Anyone, NoValue,
        factory_initialize(factory, escrow_wasm_hash, admin, limit_order_protocol))

CreateSrcEscrow(hash_lock, p) ==
    FactoryCommit("create_src_escrow", Anyone, hash_lock,
        create_src_escrow(factory, now["src"], CreateArgs(hash_lock, p)))

CreateDstEscrow(invoker, hash_lock, p, caller) ==
    FactoryCommit("create_dst_escrow", caller, hash_lock,
        create_dst_escrow(factory, now["src"], invoker, CreateArgs(hash_lock, p), caller))

\* The limit order protocol (or somebody else) reports a fill of alice's order.
PostInteraction(invoker, making_amount) ==
    FactoryCommit("post_interaction", invoker, parse_extra_data.hashlock_info,
        post_interaction(factory, now["src"], invoker, "order", "alice", "bob",
                         making_amount, tokenBal["src"]["alice"]))

GetEscrowAddress(hash_lock) ==
    FactoryCommit("get_escrow_address", Anyone, hash_lock,
        get_escrow_address(factory, hash_lock))

EscrowExists(hash_lock) ==
    FactoryCommit("escrow_exists", Anyone, hash_lock,
        Returned(factory, escrow_exists(factory, hash_lock)))

\* the instance of the swap's hash_lock is deployed
SwapEscrowDeployed ==
    EscrowAddress(Factory, keccak256(SwapSecret)) \in factory.deployed

FactoryNext ==
    \/ \E t \in {CHOOSE u \in SwapTimes : \A v \in SwapTimes : u <= v} : Tick("src", t)
    \/ \E wasm \in WasmHashes : FactoryInitialize(wasm, "carol", LimitOrderProtocol)
    \/ \E h \in FactoryHashLocks, p \in CreateChoices : CreateSrcEscrow(h, p)
    \/ \E i \in {"bob", "carol"}, h \in FactoryHashLocks, p \in CreateChoices :
          CreateDstEscrow(i, h, p, "bob")
    \/ \E i \in {LimitOrderProtocol, "carol"}, m \in {1, MakerTokens + 1} :
          PostInteraction(i, m)
    \/ \E h \in FactoryHashLocks : GetEscrowAddress(h)
    \/ \E h \in FactoryHashLocks : EscrowExists(h)
    \/ SwapEscrowDeployed
       /\ \E p \in {SwapInit, [SwapInit EXCEPT !.tl = LongDelays]} : Initialize("src", p)

FactorySpec == Init /\ [][FactoryNext]_vars

(***************************************************************************)
(* The ledger of leg "src" with everything that runs on it: the factory,   *)
(* and the escrow instance of the swap once the factory has deployed it.   *)
(***************************************************************************)
LedgerCreates == {SomeAcceptedCreate, [SomeAcceptedCreate EXCEPT !.amount = 0]}

LedgerNext ==
    \/ \E t \in SwapTimes : Tick("src", t)
    \/ FactoryInitialize("wasm1", "carol", LimitOrderProtocol)
    \/ \E h \in FactoryHashLocks, p \in LedgerCreates : CreateSrcEscrow(h, p)
    \/ \E i \in {"bob", "carol"}, p \in LedgerCreates :
          CreateDstEscrow(i, keccak256(SwapSecret), p, "bob")
    \/ \E i \in {LimitOrderProtocol, "carol"}, m \in {1, MakerTokens + 1} :
          PostInteraction(i, m)
    \/ \E h \in FactoryHashLocks : GetEscrowAddress(h)
    \/ SwapEscrowDeployed
       /\ \/ \E p \in RejectedInits \cup {SwapInit} : Initialize("src", p)
          \/ Deposit("src", "alice")
          \/ \E c \in {"bob", "carol"}, s \in Secrets : Withdraw("src", c, s)
          \/ \E c \in {"alice", "carol"} : Cancel("src", c, c)

LedgerSpec == Init /\ [][LedgerNext]_vars

(***************************************************************************)
(* The limit order protocol.  A fill is compiled either with or without    *)
(* overflow checks; the protocol stops publishing after MaxLopEvents       *)
(* events.                                                                 *)
(***************************************************************************)
LopCommit(op, caller, order_hash, amount, out) ==
    /\ lop' = out.w
    /\ last' = [leg |-> "src", op |-> op,
                caller |-> IF out.result = "AuthError" THEN Anyone ELSE caller,
                secret |-> NoSecret, result |-> out.result,
                order_hash |-> order_hash, amount |-> amount,
                value |-> IF "value" \in DOMAIN out THEN out.value ELSE NoValue]
    /\ UNCHANGED <<now, storage, tokenBal, nativeBal, events, timelockCfg, factory, resolverStore>>

LopInitialize == LopCommit("lop_initialize", Anyone, NoValue, 0, lop_initialize(lop))

FillOrder(order, signature, taker, amount, overflow_checks) ==
    /\ Len(lop.events) < MaxLopEvents
    /\ LopCommit("fill_order", taker, hash_order(order), amount,
                 fill_order(lop, order, signature, taker, amount, overflow_checks))

FillArgs(resolver_order, signature, amount, args, overflow_checks) ==
    /\ Len(lop.events) < MaxLopEvents
    /\ LopCommit("fill_args", LimitOrderProtocol,
                 hash_order(convert_resolver_order(resolver_order)), amount,
                 fill_args(lop, resolver_order, signature, amount, args, overflow_checks))

CancelOrder(invoker, maker, order_hash) ==
    /\ Len(lop.events) < MaxLopEvents
    /\ LopCommit("cancel_order", maker, order_hash, 0,
                 cancel_order(lop, invoker, maker, order_hash))

RemainingInvalidatorForOrder(maker, order_hash) ==
    LopCommit("remaining_invalidator_for_order", maker, order_hash, 0,
              Returned(lop, remaining_invalidator_for_order(lop, order_hash)))

\* the amounts a taker asks for
FillAmounts == {0, 1, 3, I128Max, U128Max}

LopNext ==
    \/ LopInitialize
    \/ \E o \in Orders, sig \in Signatures, a \in FillAmounts, c \in BOOLEAN :
          FillOrder(o, sig, "bob", a, c)
    \/ \E o \in Orders, a \in {0, 1}, args \in {<<>>, <<Escrow>>} :
          FillArgs(o, "signed", a, args, TRUE)
    \/ \E i \in {"alice", "carol"}, mk \in {"alice", "carol"}, h \in OrderHashes :
          CancelOrder(i, mk, h)
    \/ \E h \in OrderHashes : RemainingInvalidatorForOrder("alice", h)

LopSpec == Init /\ [][LopNext]_vars

(***************************************************************************)
(* The resolver.  bob's account stands for the resolver's own native       *)
(* balance, as in SendSafetyDeposit; the contracts it is configured with   *)
(* are those of this repository or a contract of carol's.                  *)
(***************************************************************************)
ResolverCommit(op, invoker, out) ==
    /\ resolverStore' = out.w
    /\ nativeBal' = [nativeBal EXCEPT !["src"] = out.native]
    /\ lop' = out.lop
    /\ last' = [leg |-> "src", op |-> op,
                caller |-> IF out.result = "AuthError" THEN Anyone ELSE invoker,
                secret |-> NoSecret, result |-> out.result]
    /\ UNCHANGED <<now, storage, tokenBal, events, timelockCfg, factory>>

ResolverInitialize(invoker, factory_address, limit_order_protocol, admin) ==
    ResolverCommit("resolver_initialize", invoker,
                   resolver_initialize(resolverStore, nativeBal["src"], lop,
                                       factory_address, limit_order_protocol, admin))

DeploySrc(invoker, amount, factory_answers, lop_answers) ==
    ResolverCommit("deploy_src", invoker,
                   deploy_src(resolverStore, nativeBal["src"], lop, invoker,
                              InitParams(SwapInit), TwoForOne, "signed", amount, <<>>,
                              factory_answers, lop_answers, TRUE))

DeployDst(invoker, factory_answers) ==
    ResolverCommit("deploy_dst", invoker,
                   deploy_dst(resolverStore, nativeBal["src"], lop, invoker, factory_answers))

ResolverWithdraw(invoker, escrow, escrow_answers) ==
    ResolverCommit("resolver_withdraw", invoker,
                   resolver_withdraw(resolverStore, nativeBal["src"], lop, invoker,
                                     escrow, escrow_answers))

ResolverCancel(invoker, escrow, escrow_answers) ==
    ResolverCommit("resolver_cancel", invoker,
                   resolver_cancel(resolverStore, nativeBal["src"], lop, invoker,
                                   escrow, escrow_answers))

ArbitraryCalls(invoker, targets, arguments, target_answers) ==
    ResolverCommit("arbitrary_calls", invoker,
                   arbitrary_calls(resolverStore, nativeBal["src"], lop, invoker,
                                   targets, arguments, target_answers))

ResolverInvokers == {"bob", "carol"}
ResolverNext ==
    \/ \E i \in ResolverInvokers, f \in {Factory, "carol"},
          l \in {LimitOrderProtocol, "carol"}, a \in ResolverInvokers :
          ResolverInitialize(i, f, l, a)
    \/ \E i \in ResolverInvokers, a \in {0, 1}, fa \in BOOLEAN, la \in BOOLEAN :
          DeploySrc(i, a, fa, la)
    \/ \E i \in ResolverInvokers, fa \in BOOLEAN : DeployDst(i, fa)
    \/ \E i \in ResolverInvokers, e \in {Escrow, "carol"}, ea \in BOOLEAN :
          ResolverWithdraw(i, e, ea)
    \/ \E i \in ResolverInvokers, e \in {Escrow, "carol"}, ea \in BOOLEAN :
          ResolverCancel(i, e, ea)
    \/ \E i \in ResolverInvokers, ta \in BOOLEAN,
          ts \in {<<>>, <<"carol">>, <<"carol", Factory>>},
          as \in {<<>>, <<"call">>, <<"short">>, <<"call", "call">>} :
          ArbitraryCalls(i, ts, as, ta)

ResolverSpec == Init /\ [][ResolverNext]_vars

(***************************************************************************)
(* What can be observed of a leg.                                          *)
(***************************************************************************)
Initialized(l) == StorageHas(storage[l], "Immutables")
get_immutables(l) == storage[l]["Immutables"]
Withdrawn(l) == StorageHas(storage[l], "Withdrawn") /\ storage[l]["Withdrawn"]
Cancelled(l) == StorageHas(storage[l], "Cancelled") /\ storage[l]["Cancelled"]
RevealedSecret(l) ==
    IF StorageHas(storage[l], "RevealedSecret") THEN storage[l]["RevealedSecret"]
    ELSE NoSecret
Terminal(l) == Withdrawn(l) \/ Cancelled(l)
deployed_at(l) == get_immutables(l).timelocks.deployed_at
withdrawal_time(l) == deployed_at(l) + get_immutables(l).timelocks.src_withdrawal
cancellation_time(l) == deployed_at(l) + get_immutables(l).timelocks.src_cancellation
\* the escrow's custody holds the maker's deposit
Funded(l) == Initialized(l) /\ tokenBal[l][Escrow] >= get_immutables(l).amount

TerminalOps == {"withdraw", "public_withdraw", "cancel", "public_cancel"}
\* the step left the ledger of leg l as it was
LegUnchanged(l) ==
    /\ storage'[l] = storage[l]
    /\ tokenBal'[l] = tokenBal[l]
    /\ nativeBal'[l] = nativeBal[l]
    /\ events'[l] = events[l]

(***************************************************************************)
(* C1.  Once an escrow is withdrawn, every later withdraw, public_withdraw,*)
(* cancel or public_cancel that passes authentication fails with           *)
(* AlreadyWithdrawn, whatever its caller, time and secret, and leaves      *)
(* storage, balances and events as they were.                              *)
(***************************************************************************)
C1_NothingAfterWithdraw ==
    [][\A l \in Legs :
          (/\ Withdrawn(l)
           /\ last'.leg = l
           /\ last'.op \in TerminalOps
           /\ last'.result # "AuthError")
          => (last'.result = "AlreadyWithdrawn" /\ LegUnchanged(l))]_vars

C1_Witness ==
    /\ Withdrawn("src")
    /\ last.leg = "src" /\ last.op = "cancel" /\ last.caller = "alice"
    /\ last.result = "AlreadyWithdrawn"
    /\ now["src"] >= cancellation_time("src")

(***************************************************************************)
(* C2.  Once an escrow is cancelled, every later withdraw, public_withdraw,*)
(* cancel or public_cancel that passes authentication fails with           *)
(* AlreadyCancelled and leaves storage, balances and events as they were.  *)
(***************************************************************************)
C2_NothingAfterCancel ==
    [][\A l \in Legs :
          (/\ Cancelled(l)
           /\ last'.leg = l
           /\ last'.op \in TerminalOps
           /\ last'.result # "AuthError")
          => (last'.result = "AlreadyCancelled" /\ LegUnchanged(l))]_vars

C2_Witness ==
    /\ Cancelled("src")
    /\ last.leg = "src" /\ last.op = "cancel" /\ last.caller = "alice"
    /\ last.result = "AlreadyCancelled"

(***************************************************************************)
(* C3.  withdrawn and cancelled are never both true, and a flag that is    *)
(* true stays true under every step.                                       *)
(***************************************************************************)
C3_FlagsExclusiveAndSticky ==
    /\ [](\A l \in Legs : ~(Withdrawn(l) /\ Cancelled(l)))
    /\ [][\A l \in Legs :
            /\ Withdrawn(l) => Withdrawn(l)'
            /\ Cancelled(l) => Cancelled(l)']_vars

C3_Witness ==
    /\ Withdrawn("src") /\ ~Cancelled("src")
    /\ last.leg = "src" /\ last.op = "initialize" /\ last.result = "AlreadyInitialized"

C6_AllOrNothing ==
    \A a \in Legs : \A b \in Legs \ {a} : ~(Withdrawn(a) /\ Cancelled(b))

(***************************************************************************)
(* C6, amended.  A leg is Withdrawn only with a secret that hashes to the  *)
(* shared hash_lock, which it stores, so a withdraw on the other leg with  *)
(* the revealed secret is never rejected with InvalidSecret; and a leg is  *)
(* Cancelled only once its own clock has reached its cancellation time.    *)
(* Nothing more ties the two legs together.                                *)
(***************************************************************************)
C6_SecretCouplesTheLegs ==
    \A a \in Legs : \A b \in Legs \ {a} :
       (/\ Initialized(a) /\ Initialized(b)
        /\ get_immutables(a).hash_lock = get_immutables(b).hash_lock)
       => /\ Withdrawn(a) =>
               /\ keccak256(RevealedSecret(a)) = get_immutables(b).hash_lock
               /\ (/\ last.leg = b /\ last.op = "withdraw"
                   /\ last.secret = RevealedSecret(a))
                     => last.result # "InvalidSecret"
          /\ Cancelled(b) => now[b] >= cancellation_time(b)

\* the secret revealed on dst has just been used to withdraw src
C6_Witness ==
    /\ Withdrawn("dst") /\ Withdrawn("src")
    /\ last.leg = "src" /\ last.op = "withdraw" /\ last.result = "Ok"
    /\ last.secret = RevealedSecret("dst")

(***************************************************************************)
(* C7.  Fund conservation, as stated: when the escrow holds the amount and *)
(* the safety deposit that were moved in, a successful withdraw,           *)
(* public_withdraw or cancel leaves nothing in the escrow, and the balance *)
(* deltas of the maker and of the counterparty/caller plus the residual    *)
(* custody add up to amount + safety_deposit.                              *)
(***************************************************************************)
Holdings(tb, nb, a) == tb[a] + nb[a]
C7_FundConservation ==
    [][\A l \in Legs :
          (/\ Initialized(l)
           /\ last'.leg = l
           /\ last'.op \in {"withdraw", "public_withdraw", "cancel"}
           /\ last'.result = "Ok"
           /\ tokenBal[l][Escrow] = get_immutables(l).amount
           /\ nativeBal[l][Escrow] = get_immutables(l).safety_deposit)
          => LET immutables == get_immutables(l)
                 other == IF last'.op = "withdraw" THEN immutables.taker
                          ELSE last'.caller
                 delta(a) == Holdings(tokenBal'[l], nativeBal'[l], a)
                             - Holdings(tokenBal[l], nativeBal[l], a)
                 moved == IF other = immutables.maker THEN delta(immutables.maker)
                          ELSE delta(immutables.maker) + delta(other)
                 residual == Holdings(tokenBal'[l], nativeBal'[l], Escrow)
             IN /\ moved + residual = immutables.amount + immutables.safety_deposit
                /\ residual = 0]_vars

(***************************************************************************)
(* C8.  As stated: a successful withdraw sets withdrawn, stores the        *)
(* supplied secret, moves amount from custody to the maker and             *)
(* safety_deposit from custody to the taker, and emits one withdrawal      *)
(* event.                                                                  *)
(***************************************************************************)
C8_WithdrawEffects ==
    [][\A l \in Legs :
          (/\ Initialized(l)
           /\ last'.leg = l /\ last'.op = "withdraw" /\ last'.result = "Ok"
           /\ nativeBal[l][Escrow] >= get_immutables(l).safety_deposit)
          => LET immutables == get_immutables(l) IN
             /\ Withdrawn(l)'
             /\ RevealedSecret(l)' = last'.secret
             /\ tokenBal'[l][Escrow] = tokenBal[l][Escrow] - immutables.amount
             /\ tokenBal'[l][immutables.maker]
                   = tokenBal[l][immutables.maker] + immutables.amount
             /\ nativeBal'[l][immutables.taker]
                   = nativeBal[l][immutables.taker] + immutables.safety_deposit
             /\ Len(events'[l]) = Len(events[l]) + 1]_vars

(***************************************************************************)
(* C9.  As stated: a successful cancel sets cancelled, leaves withdrawn    *)
(* false, and raises the maker's balance by amount + safety_deposit.       *)
(***************************************************************************)
C9_CancelEffects ==
    [][\A l \in Legs :
          (/\ Initialized(l)
           /\ last'.leg = l /\ last'.op = "cancel" /\ last'.result = "Ok"
           /\ nativeBal[l][Escrow] >= get_immutables(l).safety_deposit)
          => LET immutables == get_immutables(l) IN
             /\ Cancelled(l)' /\ ~Withdrawn(l)'
             /\ Holdings(tokenBal'[l], nativeBal'[l], immutables.maker)
                   = Holdings(tokenBal[l], nativeBal[l], immutables.maker)
                     + immutables.amount + immutables.safety_deposit]_vars

(***************************************************************************)
(* C10.  As stated: public_withdraw with a matching secret on a            *)
(* non-terminal escrow succeeds only when                                  *)
(* deployed_at + public_withdrawal <= now < deployed_at + cancellation,    *)
(* public_withdrawal being the delay configured for that escrow, and any   *)
(* authenticated call outside that window fails with InvalidTime.          *)
(***************************************************************************)
public_withdrawal_time(l) == deployed_at(l) + timelockCfg[l].src_public_withdrawal
C10_PublicWithdrawWindow ==
    \A l \in Legs :
       (/\ Initialized(l)
        /\ last.leg = l /\ last.op = "public_withdraw"
        /\ last.caller \in Addresses
        /\ keccak256(last.secret) = get_immutables(l).hash_lock)
       => LET inWindow == /\ public_withdrawal_time(l) <= now[l]
                          /\ now[l] < cancellation_time(l)
          IN /\ last.result = "Ok" => inWindow
             /\ (~inWindow /\ ~Terminal(l) /\ Funded(l))
                   => last.result = "InvalidTime"

(***************************************************************************)
(* C11.  As stated: a successful public_withdraw moves amount from custody *)
(* to the maker and safety_deposit from custody to the caller of           *)
(* public_withdraw, sets withdrawn and stores the supplied secret.         *)
(***************************************************************************)
C11_PublicWithdrawEffects ==
    [][\A l \in Legs :
          (/\ Initialized(l)
           /\ last'.leg = l /\ last'.op = "public_withdraw" /\ last'.result = "Ok"
           /\ nativeBal[l][Escrow] >= get_immutables(l).safety_deposit)
          => LET immutables == get_immutables(l) IN
             /\ Withdrawn(l)' /\ ~Cancelled(l)'
             /\ RevealedSecret(l)' = last'.secret
             /\ tokenBal'[l][immutables.maker]
                   = tokenBal[l][immutables.maker] + immutables.amount
             /\ nativeBal'[l][last'.caller]
                   = nativeBal[l][last'.caller] + immutables.safety_deposit
             /\ nativeBal'[l][Escrow]
                   = nativeBal[l][Escrow] - immutables.safety_deposit]_vars

(***************************************************************************)
(* C12.  As stated: public_cancel by any authenticated caller on a         *)
(* non-terminal escrow at or after deployed_at + public_cancellation       *)
(* succeeds, sets cancelled, leaves withdrawn false, appends one           *)
(* EscrowCancelled event and refunds the maker.                            *)
(***************************************************************************)
public_cancellation_time(l) == deployed_at(l) + timelockCfg[l].src_public_cancellation
PublicCancelEffects(l) ==
    LET immutables == get_immutables(l) IN
    /\ last'.result = "Ok"
    /\ Cancelled(l)' /\ ~Withdrawn(l)'
    /\ Len(events'[l]) = Len(events[l]) + 1
    /\ events'[l][Len(events'[l])].topic = "EscrowCancelled"
    /\ events'[l][Len(events'[l])].refund_to = immutables.maker
    /\ tokenBal'[l][immutables.maker] = tokenBal[l][immutables.maker] + immutables.amount
    /\ tokenBal'[l][Escrow] = tokenBal[l][Escrow] - immutables.amount
C13_NeverStuck ==
    /\ [][\A l \in Legs :
            (/\ Funded(l) /\ ~Terminal(l)
             /\ now[l] >= cancellation_time(l)
             /\ last'.leg = l /\ last'.op = "cancel"
             /\ last'.caller = get_immutables(l).maker)
            => (last'.result = "Ok" /\ Cancelled(l)')]_vars
    /\ \A l \in Legs : (Funded(l) /\ ~Terminal(l)) ~> Terminal(l)

\* an escrow created late is cancelled by its maker at its cancellation time
C13_Witness ==
    /\ Cancelled("src")
    /\ deployed_at("src") > StartTime
    /\ now["src"] = cancellation_time("src")
    /\ last.leg = "src" /\ last.op = "cancel" /\ last.caller = "alice"
    /\ last.result = "Ok"

(***************************************************************************)
(* C14.  On a non-terminal escrow an authenticated withdraw or             *)
(* public_withdraw whose secret does not hash to hash_lock fails with      *)
(* InvalidSecret and changes nothing; on the funded escrow it leaves, a    *)
(* withdraw by the taker with the right secret at any later time inside    *)
(* the window succeeds, and so does a cancel by the maker at any later     *)
(* time at or after the cancellation time.                                 *)
(***************************************************************************)
C14_WrongSecretChangesNothing ==
    [][\A l \in Legs :
          (/\ Initialized(l) /\ ~Terminal(l)
           /\ last'.leg = l /\ last'.op \in {"withdraw", "public_withdraw"}
           /\ last'.result # "AuthError"
           /\ keccak256(last'.secret) # get_immutables(l).hash_lock)
          => LET immutables == get_immutables(l)
                 after == World(l)'
             IN /\ last'.result = "InvalidSecret"
                /\ LegUnchanged(l)
                /\ Funded(l) =>
                     \A t \in Times : t >= now[l] =>
                        /\ (withdrawal_time(l) <= t /\ t < cancellation_time(l)) =>
                              \A s \in Secrets :
                                 keccak256(s) = immutables.hash_lock =>
                                    withdraw(after, t, immutables.taker, s).result = "Ok"
                        /\ t >= cancellation_time(l) =>
                              cancel(after, t, immutables.maker, immutables.maker).result
                                 = "Ok"]_vars

\* a wrong secret was just rejected inside the withdrawal window
C14_Witness ==
    /\ Funded("src") /\ ~Terminal("src")
    /\ withdrawal_time("src") <= now["src"] /\ now["src"] < cancellation_time("src")
    /\ last.leg = "src" /\ last.op = "withdraw" /\ last.result = "InvalidSecret"
    /\ keccak256(last.secret) # get_immutables("src").hash_lock

(***************************************************************************)
(* C15.  As stated: every escrow accepted at creation has delays with      *)
(* finality < withdrawal < public_withdrawal < cancellation <              *)
(* public_cancellation, in the configuration it was created with and in    *)
(* the boundaries the escrow itself uses, so that the public withdrawal    *)
(* window is not empty; a configuration breaking the order is rejected.    *)
(***************************************************************************)
\* the delay after which the escrow lets anybody withdraw
escrow_public_withdrawal(l) ==
    get_immutables(l).timelocks.src_withdrawal + PublicWithdrawGrace
C15_AcceptedDelaysOrdered ==
    \A l \in Legs :
       Initialized(l) =>
          LET cfg == timelockCfg[l]
              timelocks == get_immutables(l).timelocks
          IN /\ cfg.finality < cfg.src_withdrawal
             /\ cfg.src_withdrawal < cfg.src_public_withdrawal
             /\ cfg.src_public_withdrawal < cfg.src_cancellation
             /\ cfg.src_cancellation < cfg.src_public_cancellation
             /\ timelocks.finality < timelocks.src_withdrawal
             /\ timelocks.src_withdrawal < escrow_public_withdrawal(l)
             /\ escrow_public_withdrawal(l) < timelocks.src_cancellation

(***************************************************************************)
(* C16.  On an initialized instance every initialize, whatever its         *)
(* parameters, fails with AlreadyInitialized and leaves the immutables,    *)
(* the flags, the balances and the event log as they were.                 *)
(***************************************************************************)
C16_InitializeOnce ==
    [][\A l \in Legs :
          (Initialized(l) /\ last'.leg = l /\ last'.op = "initialize")
          => /\ last'.result = "AlreadyInitialized"
             /\ LegUnchanged(l)
             /\ timelockCfg' = timelockCfg]_vars

\* a second initialize was just refused on a funded, non-terminal escrow
C16_Witness ==
    /\ Funded("src") /\ ~Terminal("src")
    /\ Len(events["src"]) = 1
    /\ last.leg = "src" /\ last.op = "initialize"
    /\ last.result = "AlreadyInitialized"

(***************************************************************************)
(* C17.  On an uninitialized instance, initialize with amount <= 0 or      *)
(* safety_deposit <= 0 fails with InvalidParams and leaves the instance    *)
(* uninitialized (no immutables, no flags, no event); every accepted set   *)
(* of parameters still initializes it afterwards.                          *)
(***************************************************************************)
C17_BadAmountsRejected ==
    [][\A l \in Legs :
          (~Initialized(l) /\ last'.leg = l /\ last'.op = "initialize") =>
             \A p \in InitChoices :
                (/\ p.amount <= 0 \/ p.safety_deposit <= 0
                 /\ Initialize(l, p))
                => /\ last'.result = "InvalidParams"
                   /\ LegUnchanged(l)
                   /\ storage'[l] = EmptyStorage /\ events'[l] = <<>>
                   /\ \A q \in AcceptedInits : \A t \in Times :
                         t >= now[l] =>
                            initialize(World(l)', t, InitParams(q)).result = "Ok"]_vars

\* an initialize with a bad amount was just refused; nothing is stored
C17_Witness ==
    /\ ~Initialized("src")
    /\ storage["src"] = EmptyStorage /\ events["src"] = <<>>
    /\ last.leg = "src" /\ last.op = "initialize" /\ last.result = "InvalidParams"

(***************************************************************************)
(* C18.  As stated: initialize stores the ledger timestamp of the call as  *)
(* deployed_at, whatever the parameters (two calls at the same time with   *)
(* different parameters store the same deployed_at), and every window      *)
(* boundary an operation uses afterwards is deployed_at plus the delay     *)
(* configured for it.                                                      *)
(***************************************************************************)
C18_DeployedAtIsLedgerTime ==
    /\ [][\A l \in Legs :
            (last'.leg = l /\ last'.op = "initialize" /\ last'.result = "Ok")
            => /\ deployed_at(l)' = now[l]
               /\ \A p \in AcceptedInits :
                     LET out == initialize(World(l), now[l], InitParams(p))
                     IN /\ out.result = "Ok"
                        /\ out.w.storage["Immutables"].timelocks.deployed_at
                              = deployed_at(l)']_vars
    /\ [](\A l \in Legs :
            (Initialized(l) /\ last.leg = l /\ last.result = "Ok") =>
               /\ last.op = "withdraw" =>
                     /\ deployed_at(l) + timelockCfg[l].src_withdrawal <= now[l]
                     /\ now[l] < deployed_at(l) + timelockCfg[l].src_cancellation
               /\ last.op = "public_withdraw" =>
                     /\ deployed_at(l) + timelockCfg[l].src_public_withdrawal <= now[l]
                     /\ now[l] < deployed_at(l) + timelockCfg[l].src_cancellation
               /\ last.op = "cancel" =>
                     deployed_at(l) + timelockCfg[l].src_cancellation <= now[l]
               /\ last.op = "public_cancel" =>
                     deployed_at(l) + timelockCfg[l].src_public_cancellation <= now[l])

(***************************************************************************)
(* C19.  deposit succeeds only when authorised by the maker and only on a  *)
(* non-terminal escrow; a successful deposit moves exactly amount of the   *)
(* token from the maker to the escrow and nothing else (no native asset,   *)
(* no storage, no event); on a withdrawn or cancelled escrow it fails and  *)
(* changes nothing.                                                        *)
(***************************************************************************)
C19_DepositFrame ==
    [][\A l \in Legs :
          (Initialized(l) /\ last'.leg = l /\ last'.op = "deposit") =>
             LET immutables == get_immutables(l) IN
             /\ last'.result = "Ok" =>
                   /\ last'.caller = immutables.maker
                   /\ ~Terminal(l)
                   /\ tokenBal'[l] =
                         [a \in Accounts |->
                            IF a = immutables.maker
                            THEN tokenBal[l][a] - immutables.amount
                            ELSE IF a = Escrow
                            THEN tokenBal[l][a] + immutables.amount
                            ELSE tokenBal[l][a]]
                   /\ nativeBal'[l] = nativeBal[l]
                   /\ storage'[l] = storage[l]
                   /\ events'[l] = events[l]
             /\ Terminal(l) => (last'.result # "Ok" /\ LegUnchanged(l))]_vars

\* the maker has just funded the escrow with exactly amount
C19_Witness ==
    /\ Initialized("src") /\ ~Terminal("src")
    /\ tokenBal["src"][Escrow] = get_immutables("src").amount
    /\ nativeBal["src"][Escrow] = 0
    /\ last.leg = "src" /\ last.op = "deposit" /\ last.caller = "alice"
    /\ last.result = "Ok"

(***************************************************************************)
(* C20.  get_revealed_secret fails whenever withdrawn is false (created,   *)
(* funded or cancelled escrow); a successful withdraw or public_withdraw   *)
(* with secret s stores s, the stored secret never changes afterwards, and *)
(* every get_revealed_secret on the withdrawn escrow returns it.           *)
(***************************************************************************)
C20_RevealedSecretRead ==
    /\ [](\A l \in Legs :
            (last.leg = l /\ last.op = "get_revealed_secret") =>
               /\ ~Withdrawn(l) => last.result # "Ok"
               /\ Withdrawn(l) =>
                     (last.result = "Ok" /\ last.secret = RevealedSecret(l)))
    /\ [][\A l \in Legs :
            /\ (/\ last'.leg = l /\ last'.op \in {"withdraw", "public_withdraw"}
                /\ last'.result = "Ok")
               => get_revealed_secret(storage'[l])
                     = [result |-> "Ok", value |-> last'.secret]
            /\ Withdrawn(l) =>
                  get_revealed_secret(storage'[l]) = get_revealed_secret(storage[l])]_vars

\* the secret of the swap is read back from a withdrawn escrow
C20_Witness ==
    /\ Withdrawn("src")
    /\ last.leg = "src" /\ last.op = "get_revealed_secret"
    /\ last.result = "Ok" /\ last.secret = SwapSecret

Registered(h) == StorageHas(factory.persistent, h)
FactoryInitialized == StorageHas(factory.instance, "Initialized")
CreateOps == {"create_src_escrow", "create_dst_escrow"}

C23_SrcThenDstBothSucceed ==
    [][\A h \in FactoryHashLocks :
          (/\ last.op = "create_src_escrow" /\ last.result = "Ok" /\ last.hash_lock = h
           /\ last'.op = "create_dst_escrow" /\ last'.hash_lock = h
           /\ \E p \in AcceptedCreates : CreateDstEscrow("bob", h, p, "bob"))
          => /\ last'.result = "Ok"
             /\ last'.value # last.value
             /\ escrow_exists(factory', h)]_vars

(***************************************************************************)
(* C24.  As stated: once a create has succeeded for the swap's hash_lock,  *)
(* the instance registered under it is initialized, and its immutables are *)
(* the arguments of that create as the creation record carries them        *)
(* (nobody has set, or can set, other values).                             *)
(***************************************************************************)
\* the record the successful create for h published
CreationRecord(h) ==
    factory.events[CHOOSE i \in 1..Len(factory.events) :
                      /\ factory.events[i].hash_lock = h
                      /\ factory.events[i].escrow_address = factory.persistent[h]]
C24_CreatedEscrowInitialized ==
    LET h == keccak256(SwapSecret)
    IN Registered(h) =>
          /\ Initialized("src")
          /\ get_immutables("src").order_hash = CreationRecord(h).order_hash
          /\ get_immutables("src").hash_lock = h
          /\ get_immutables("src").maker = CreationRecord(h).maker
          /\ get_immutables("src").taker = CreationRecord(h).taker
          /\ get_immutables("src").token = CreationRecord(h).token
          /\ get_immutables("src").amount = CreationRecord(h).amount
          /\ get_immutables("src").safety_deposit = CreationRecord(h).safety_deposit
          /\ \A d \in {"finality", "src_withdrawal", "src_cancellation", "deployed_at"} :
                get_immutables("src").timelocks[d] = CreationRecord(h).timelocks[d]

(***************************************************************************)
(* C25.  While no create has succeeded for a hash_lock, get_escrow_address *)
(* fails with EscrowNotFound and escrow_exists answers false; a registry   *)
(* entry appears only with a successful create for that hash_lock and      *)
(* holds the address that create returned; from then on                    *)
(* get_escrow_address returns that address and escrow_exists answers true, *)
(* and no operation changes or removes the entry.                          *)
(***************************************************************************)
C25_RegistryWriteOnce ==
    [][\A h \in FactoryHashLocks :
          /\ (last'.op = "get_escrow_address" /\ last'.hash_lock = h)
             => IF Registered(h)
                THEN last'.result = "Ok" /\ last'.value = factory.persistent[h]
                ELSE last'.result = "EscrowNotFound"
          /\ (last'.op = "escrow_exists" /\ last'.hash_lock = h)
             => last'.value = Registered(h)
          /\ (~Registered(h) /\ Registered(h)')
             => /\ last'.op \in CreateOps /\ last'.hash_lock = h
                /\ last'.result = "Ok"
                /\ factory'.persistent[h] = last'.value
          /\ (last'.op \in CreateOps /\ last'.hash_lock = h /\ last'.result = "Ok")
             => ~Registered(h) /\ Registered(h)'
          /\ Registered(h)
             => Registered(h)' /\ factory'.persistent[h] = factory.persistent[h]]_vars
\* the lookup returns the address of the first of two creations
C25_Witness ==
    /\ last.op = "get_escrow_address" /\ last.result = "Ok"
    /\ Len(factory.events) >= 2
    /\ factory.events[1].hash_lock = last.hash_lock
    /\ factory.events[1].escrow_address = last.value
    /\ last.value = EscrowAddress(Factory, last.hash_lock)

C27_FactoryInitializeOnce ==
    [][/\ \A wasm \in WasmHashes :
             (/\ ~FactoryInitialized /\ last'.op = "factory_initialize"
              /\ FactoryInitialize(wasm, "carol", LimitOrderProtocol))
             => /\ last'.result = "Ok"
                /\ factory'.instance["EscrowWasmHash"] = wasm
                /\ factory'.instance["Admin"] = "carol"
                /\ factory'.instance["LimitOrderProtocol"] = LimitOrderProtocol
       /\ (FactoryInitialized /\ last'.op = "factory_initialize")
          => last'.result = "AlreadyInitialized"
       /\ FactoryInitialized => factory'.instance = factory.instance]_vars
\* a second initialize was refused
C27_Witness ==
    /\ last.op = "factory_initialize" /\ last.result = "AlreadyInitialized"
    /\ FactoryInitialized

(***************************************************************************)
(* What can be observed of the limit order protocol.                       *)
(***************************************************************************)
\* cancel_order has succeeded for this order hash
OrderCancelled(order_hash) ==
    \E i \in 1..Len(lop.events) :
       /\ lop.events[i].topic = "OrderCancelled"
       /\ lop.events[i].order_hash = order_hash

(***************************************************************************)
(* C28.  As stated, for fills that pass the validation of the order and of *)
(* the signature: once cancel_order has succeeded for an order,            *)
(* remaining_invalidator_for_order returns 0 for it, and every later       *)
(* fill_order of that order with amount > 0 fails with                     *)
(* TakingAmountExceeded.                                                   *)
(***************************************************************************)
C28_CancelledOrderUnfillable ==
    [][\A o \in Orders :
          OrderCancelled(hash_order(o)) =>
             /\ remaining_invalidator_for_order(lop, hash_order(o)) = 0
             /\ (/\ last'.op = "fill_order" /\ last'.order_hash = hash_order(o)
                 /\ last'.amount > 0
                 /\ validate_order(o)
                 /\ \E c \in BOOLEAN : FillOrder(o, "signed", "bob", last'.amount, c))
                => last'.result = "TakingAmountExceeded"]_vars

(***************************************************************************)
(* C29.  As stated: a successful fill_order(order, amount) returns         *)
(* taking_amount = amount and making_amount = the integer quotient         *)
(* floor(amount * order.making_amount / order.taking_amount), whether or   *)
(* not the product fits the machine word.                                  *)
(***************************************************************************)
C29_FillReturnsQuotient ==
    [][\A o \in Orders :
          (/\ last'.op = "fill_order" /\ last'.result = "Ok"
           /\ last'.order_hash = hash_order(o))
          => /\ last'.value.taking_amount = last'.amount
             /\ last'.value.making_amount =
                   (last'.amount * o.making_amount) \div o.taking_amount]_vars

C31_ImmutablesSetOnce ==
    [][\A l \in Legs :
          /\ (~Initialized(l) /\ Initialized(l)')
             => last'.leg = l /\ last'.op = "initialize" /\ last'.result = "Ok"
          /\ Initialized(l)
             => Initialized(l)' /\ get_immutables(l)' = get_immutables(l)]_vars
\* a withdrawn escrow still carries the immutables it was initialized with,
\* after a later initialize was refused
C31_Witness ==
    /\ last.op = "initialize" /\ last.result = "AlreadyInitialized"
    /\ Withdrawn("src")
    /\ get_immutables("src").hash_lock = keccak256(SwapSecret)
    /\ get_immutables("src").timelocks.deployed_at < now["src"]

(***************************************************************************)
(* C32.  As stated: no deposit, withdraw, public_withdraw or cancel        *)
(* succeeds at a ledger time earlier than deployed_at + finality.          *)
(***************************************************************************)
C32_NothingBeforeFinality ==
    [][\A l \in Legs :
          (/\ Initialized(l) /\ last'.leg = l
           /\ last'.op \in {"deposit", "withdraw", "public_withdraw", "cancel"}
           /\ last'.result = "Ok")
          => now[l] >= deployed_at(l) + get_immutables(l).timelocks.finality]_vars

(***************************************************************************)
(* C33.  As stated, for a funded escrow and a caller the operation         *)
(* accepts: when withdraw, public_withdraw or cancel fails with            *)
(* InvalidTime on a non-terminal escrow, the same call, by the same caller *)
(* with the same arguments on the same escrow state, fails at every        *)
(* earlier time since the deployment and succeeds at some later time.      *)
(***************************************************************************)
\* the call of the step, repeated on the unchanged escrow at time t
SameCallAt(l, t) ==
    CASE last'.op = "withdraw" ->
            withdraw(World(l), t, last'.caller, last'.secret)
      [] last'.op = "public_withdraw" ->
            public_withdraw(World(l), t, last'.caller, last'.secret, last'.caller)
      [] last'.op = "cancel" ->
            cancel(World(l), t, last'.caller, last'.caller)
\* Later times that decide whether a retry can succeed: the success times of
\* a call are an interval between two window boundaries, so one of them is
\* after `now` exactly when the next instant or a boundary after it is one.
RetryTimes(l) ==
    {t \in {now[l] + 1, withdrawal_time(l), public_withdrawal_time(l),
            deployed_at(l) + escrow_public_withdrawal(l),
            cancellation_time(l)} : t > now[l]}
C33_InvalidTimeRetryableLater ==
    [][\A l \in Legs :
          (/\ Funded(l) /\ ~Terminal(l) /\ last'.leg = l
           /\ last'.op \in {"withdraw", "public_withdraw", "cancel"}
           /\ last'.result = "InvalidTime"
           /\ last'.op = "cancel"
              => last'.caller \in {get_immutables(l).maker, get_immutables(l).taker})
          => /\ \A t \in Times :
                   (deployed_at(l) <= t /\ t < now[l]) => SameCallAt(l, t).result # "Ok"
             /\ \E t \in RetryTimes(l) : SameCallAt(l, t).result = "Ok"]_vars

(***************************************************************************)
(* C34.  As stated: cancel_order(caller, order_hash) changes what remains  *)
(* of an order only when the caller is the maker of that order; a call     *)
(* authorized by any other address leaves the remaining amount unchanged   *)
(* and the order as fillable as before.                                    *)
(***************************************************************************)
C34_OnlyMakerCancels ==
    [][\A o \in Orders :
          (/\ last'.op = "cancel_order" /\ last'.order_hash = hash_order(o)
           /\ last'.caller # o.maker)
          => /\ get_remaining_amount(lop', hash_order(o))
                = get_remaining_amount(lop, hash_order(o))
             /\ remaining_invalidator_for_order(lop', hash_order(o))
                = remaining_invalidator_for_order(lop, hash_order(o))]_vars

(***************************************************************************)
(* C35.  As stated: after one successful deposit, a further deposit by     *)
(* the maker on the still non-terminal escrow pulls no second amount from  *)
(* the maker; the escrow's custody of the token never exceeds amount; and  *)
(* nothing of the token is left in the escrow after the terminal           *)
(* operation.                                                              *)
(***************************************************************************)
C35_DepositPullsOnce ==
    [][\A l \in Legs :
          /\ (/\ Funded(l) /\ ~Terminal(l)
              /\ last'.leg = l /\ last'.op = "deposit")
             => tokenBal'[l] = tokenBal[l]
          /\ Initialized(l) => tokenBal[l][Escrow] <= get_immutables(l).amount
          /\ (Initialized(l) /\ Terminal(l)) => tokenBal[l][Escrow] = 0]_vars

(***************************************************************************)
(* C36.  A revealed secret is stored exactly when withdrawn is true; the   *)
(* stored secret hashes to the hash lock; and once stored it is never      *)
(* overwritten or removed.                                                 *)
(***************************************************************************)
C36_RevealedSecretWithWithdrawn ==
    [][\A l \in Legs :
          /\ StorageHas(storage[l], "RevealedSecret") <=> Withdrawn(l)
          /\ StorageHas(storage[l], "RevealedSecret")'
             => /\ Initialized(l)'
                /\ keccak256(RevealedSecret(l)') = get_immutables(l)'.hash_lock
          /\ StorageHas(storage[l], "RevealedSecret")
             => /\ StorageHas(storage[l], "RevealedSecret")'
                /\ RevealedSecret(l)' = RevealedSecret(l)]_vars
\* the secret of a withdrawn escrow is still there after a later, refused
\* withdraw with another secret
C36_Witness ==
    /\ last.leg = "src" /\ last.op \in {"withdraw", "public_withdraw"}
    /\ last.result # "Ok" /\ last.secret # SwapSecret /\ last.secret # NoSecret
    /\ Withdrawn("src")
    /\ RevealedSecret("src") = SwapSecret

(***************************************************************************)
(* What can be observed of the resolver.                                   *)
(***************************************************************************)
ResolverConfigured == StorageHas(resolverStore.instance, "config")

(***************************************************************************)
(* C37.  As stated: once the resolver has been initialized, no call made   *)
(* without the authorization of its current admin changes its              *)
(* configuration (factory, limit_order_protocol, admin).                   *)
(***************************************************************************)
C37_ResolverConfigurationFixed ==
    [][(/\ ResolverConfigured
        /\ last'.caller # resolverStore.instance["config"].admin)
       => resolverStore' = resolverStore]_vars

(***************************************************************************)
(* C38.  As stated: for every order hash, the amount fill_order still      *)
(* accepts never grows over any sequence of initialize, fill_order,        *)
(* fill_args and cancel_order calls; once reduced or set to 0 it does not  *)
(* come back.                                                              *)
(***************************************************************************)
C38_RemainingNeverGrows ==
    [][\A h \in OrderHashes :
          get_remaining_amount(lop', h) <= get_remaining_amount(lop, h)]_vars

\* the orders fill_order has filled at least once
FilledOrders ==
    {o \in Orders : \E i \in 1..Len(lop.events) :
                       /\ lop.events[i].topic = "OrderFilled"
                       /\ lop.events[i].order_hash = hash_order(o)}
RECURSIVE TotalTaking(_)
TotalTaking(S) ==
    IF S = {} THEN 0
    ELSE LET o == CHOOSE x \in S : TRUE IN o.taking_amount + TotalTaking(S \ {o})
RECURSIVE TotalMaking(_)
TotalMaking(S) ==
    IF S = {} THEN 0
    ELSE LET o == CHOOSE x \in S : TRUE IN o.making_amount + TotalMaking(S \ {o})

(***************************************************************************)
(* C39.  As stated, in what it says of one fill and of the maker's         *)
(* balances: the successful fills of an order sum to at most its           *)
(* taking_amount and take at most its making_amount from the maker, so no  *)
(* single successful fill exceeds either, and over all orders the maker    *)
(* has received at most the taking amounts, and given at most the making   *)
(* amounts, of the orders filled.                                          *)
(***************************************************************************)
C39_FillsWithinOrder ==
    [][/\ \A o \in Orders :
             (/\ last'.op \in {"fill_order", "fill_args"} /\ last'.result = "Ok"
              /\ last'.order_hash = hash_order(o))
             => /\ last'.amount <= o.taking_amount
                /\ lop.maker_asset[o.maker] - lop'.maker_asset[o.maker] <= o.making_amount
       /\ lop.taker_asset["alice"] <= TotalTaking(FilledOrders)
       /\ LopInitial.maker_asset["alice"] - lop.maker_asset["alice"]
             <= TotalMaking(FilledOrders)]_vars

=============================================================================
